---- MODULE Spec2Model ----
(***************************************************************************)
(* State-machine model of the two monitors of matrixbot:                   *)
(*   - DownloadMonitor (src/src/matrixbot/monitors/download.py), with the  *)
(*     status query RealDebridHandler.get_torrent_downloads                *)
(*     (src/src/matrixbot/handlers/realdebrid.py);                         *)
(*   - LoginMonitor (src/src/matrixbot/monitors/login.py).                 *)
(* Text is modelled as sequences of one-character strings, so that the     *)
(* substring test and the formatting of the code are computed, not assumed.*)
(***************************************************************************)
EXTENDS Integers, Sequences, FiniteSets, TLC

VARIABLES
    \* ---- DownloadMonitor ------------------------------------------------
    active_torrents, \* self.active_torrents: insertion-ordered dict, as a
                     \* sequence of [key, td] entries
    pc,              \* where start_monitoring is suspended:
                     \* "sleep" | "query" | "callback"
    items,           \* what is left of list(self.active_torrents.items()),
                     \* head = the entry of the running iteration; each is
                     \* [key, td, live], live = the dict object td is still
                     \* the one stored under key in active_torrents
    completed,       \* local list completed
    failed,          \* local list failed
    \* ---- observers of the DownloadMonitor (history variables) -----------
    cbCount,         \* per key: callback invocations since the key entered
                     \* the active set (saturating at 2)
    pollsMatched,    \* per key: how far the statuses polled since the last
                     \* registration follow downloading, downloading,
                     \* downloaded (0..3), -1 once they deviate
    sawNotFound,     \* per key: a query answered HTTP 404 since the key
                     \* entered the active set
    snapKeys,        \* keys active when the running / last cycle started,
                     \* in iteration order
    queried,         \* keys queried in the running / last cycle, in order
    queryFailedIn,   \* <<key, how>> for each query that failed in the
                     \* running / last cycle; how = "raised" when the request
                     \* raised (timeout, network or parse error), "status"
                     \* when the API answered with an error status
    cbRaisedIn,      \* keys whose callback raised in the running / last cycle
    regDuringCycle,  \* keys registered while the running / last cycle was
                     \* suspended at an await
    cycleError,      \* the last cycle ended in the handler of line 123
    cycleNo,         \* number of cycles started, modulo 2
    changedIn,       \* keys whose polled status differed, in the running /
                     \* last cycle, from the status stored by the previous
                     \* poll (by add_torrent when there was none)
    cbIn,            \* keys whose callback was invoked in the running / last
                     \* cycle
    otherIn,         \* keys whose query succeeded with a status other than
                     \* downloaded in the running / last cycle
    cbData,          \* for each callback of the running / last cycle: the
                     \* key, status, notified and links of the torrent_data
                     \* it was invoked with, and the links of the response
                     \* that triggered it (response)
    passedModified,  \* the monitor has written to a torrent_data dict after
                     \* it had passed it to the callback
    sleep_delay,     \* the argument of the asyncio.sleep start_monitoring
                     \* is suspended in, 0 when it is not in a sleep
    watched,         \* the key of the job an observer has chosen to follow,
                     \* "" while none is chosen
    watchEnd,        \* what happened first to the followed key: "none",
                     \* "bad" (a query for it did not succeed with status
                     \* downloaded), "done" (its callback was invoked)
    \* ---- LoginMonitor and the watched file -----------------------------
    file,            \* the file at self.log_file: [exists, inode, content]
    last_position,   \* self.last_position
    last_inode,      \* self.last_inode, 0 for None
    lpc,             \* start_monitoring: "new" (not called yet), "running"
                     \* (in the while loop), "returned" (left at line 64)
    \* ---- observers of the LoginMonitor (history variables) --------------
    nextSerial,      \* serial number of the next line the log writer writes;
                     \* a line carries its serial as its port
    pendingWrite,    \* rest of a line written in two pieces
    lineStart,       \* per serial: offset of the line in the current file,
                     \* -1 when the line is not in it
    startPos,        \* the offset recorded by start_monitoring
    delivered,       \* the events passed to the callback, in order
    dropped,         \* serials of the lines that were entirely unread when
                     \* their file was replaced
    disturbed,       \* the file was replaced, removed or truncated
    cbRaised,        \* the callback has raised
    fedPartial,      \* a text without its newline was passed to _process_line
    monitor_task,    \* self.monitor_task, "None" when no task is stored
    log_sleep_delay, \* the argument of the asyncio.sleep that followed the
                     \* last call of _check_new_lines, 0 before the first
    stoppedRunning,  \* stop_monitoring was called while the loop ran
    lastPoll,        \* the last poll: [kind, rotated, from, readAll, kept];
                     \* kind = "ok" | "absent" | "error" ("none" before the
                     \* first poll), kept = it changed neither offset nor
                     \* inode and invoked no callback
    \* ---- _process_line on its own ------------------------------------
    log_line,        \* the line last passed to _process_line
    callback_calls,  \* the events the callback was invoked with for it
    \* ---- NPM watchdog (monitors/npm.py) -------------------------------
    last_restart_time,    \* the module global
    restart_count,        \* the module global
    consecutive_failures, \* the local of monitor_loop
    now,                  \* datetime.now().timestamp()
    npc,                  \* "new" before monitor_loop runs, then "loop"
    failedRun,            \* check_url calls that returned False since the
                          \* last call that returned True
    restartTimes,         \* the clock at each successful restart, in order
    lastIteration    \* the last loop iteration: [is_available, called,
                     \* run, refused, cooling, succeeded, timeBefore,
                     \* countBefore]; called = restart_container was
                     \* called, run = failedRun at the call, refused = its
                     \* cooldown test returned False to the loop, cooling =
                     \* less than RESTART_COOLDOWN had passed since the last
                     \* successful restart, succeeded = a check_url
                     \* returned True

dlvars == <<active_torrents, pc, items, completed, failed, cbCount,
            pollsMatched, sawNotFound, snapKeys, queried, queryFailedIn,
            cbRaisedIn, regDuringCycle, cycleError, cycleNo, changedIn, cbIn,
            otherIn, cbData, passedModified, sleep_delay, watched, watchEnd>>

logvars == <<file, last_position, last_inode, lpc, nextSerial, pendingWrite,
             lineStart, startPos, delivered, dropped, disturbed, cbRaised,
             fedPartial, lastPoll, monitor_task, log_sleep_delay,
             stoppedRunning>>

clvars == <<log_line, callback_calls>>

npmvars == <<last_restart_time, restart_count, consecutive_failures, now, npc,
             failedRun, restartTimes, lastIteration>>

vars == <<dlvars, logvars, clvars, npmvars>>

-----------------------------------------------------------------------------
(* Bounds of the model                                                     *)

\* number of lines the log writer writes in a behaviour
MaxLines == 2

-----------------------------------------------------------------------------
(* Text helpers                                                            *)

Digit(d) ==
    CASE d = 0 -> "0" [] d = 1 -> "1" [] d = 2 -> "2" [] d = 3 -> "3"
      [] d = 4 -> "4" [] d = 5 -> "5" [] d = 6 -> "6" [] d = 7 -> "7"
      [] d = 8 -> "8" [] d = 9 -> "9"

\* str(n) of a non-negative integer, as f"{response.status}" formats it
RECURSIVE Digits(_)
Digits(n) ==
    IF n < 10 THEN <<Digit(n)>> ELSE Digits(n \div 10) \o <<Digit(n % 10)>>

\* Python's `sub in s` on strings
Contains(sub, s) ==
    \E i \in 1..(Len(s) - Len(sub) + 1) :
        \A j \in 1..Len(sub) : s[i + j - 1] = sub[j]

-----------------------------------------------------------------------------
(* Inputs of the download monitor                                          *)

\* (user_id, torrent_id) pairs a magnet command can register
Jobs == {<<"a", "b_c">>, <<"a_b", "c">>, <<"a", "c">>}
Rooms == {"!r1"}
ApiKeys == {"k1"}
Filenames == {"f1", "f2"}

\* key = f"{user_id}_{torrent_id}"
KeyOf(user_id, torrent_id) == user_id \o "_" \o torrent_id

Keys == {KeyOf(j[1], j[2]) : j \in Jobs}

\* The answers of the remote API to GET /torrents/info, before
\* get_torrent_downloads turns them into a result dict.
NoBody == [status |-> "", progress |-> 0, links |-> <<>>]
Bodies ==
    { [status |-> "downloading", progress |-> 50,  links |-> <<>>],
      [status |-> "downloaded",  progress |-> 100, links |-> <<"l1">>],
      [status |-> "error",       progress |-> 0,   links |-> <<>>] }
ExcTexts ==
    { <<"C","o","n","n","e","c","t","i","o","n"," ","r","e","s","e","t"," ",
        "b","y"," ","p","e","e","r">>,
      <<"C","a","n","n","o","t"," ","c","o","n","n","e","c","t"," ","t","o",
        " ","h","o","s","t"," ","p","r","o","x","y",":","4","0","4","4","3">> }
Replies ==
    { [kind |-> "http", code |-> 200, body |-> b, text |-> <<>>] : b \in Bodies }
    \cup { [kind |-> "http", code |-> c, body |-> NoBody, text |-> <<>>] :
             c \in {401, 404, 500} }
    \cup { [kind |-> "timeout", code |-> 0, body |-> NoBody, text |-> <<>>] }
    \cup { [kind |-> "exception", code |-> 0, body |-> NoBody, text |-> t] :
             t \in ExcTexts }

CallbackOutcomes == {"ok", "raise"}

-----------------------------------------------------------------------------
(* RealDebridHandler.get_torrent_downloads                                 *)

\* the cross mark and the space every error text starts with; the mark is
\* written "#" here
Cross == <<"#", " ">>

MsgNoKey ==
    Cross \o
    <<"N","o"," ","R","e","a","l","D","e","b","r","i","d"," ","A","P","I",
      " ","k","e","y"," ","c","o","n","f","i","g","u","r","e","d",".">>
MsgInvalidKey ==
    Cross \o
    <<"I","n","v","a","l","i","d"," ","R","e","a","l","D","e","b","r","i","d",
      " ","A","P","I"," ","k","e","y",".">>
MsgTimeout ==
    Cross \o
    <<"R","e","q","u","e","s","t"," ","t","i","m","e","o","u","t">>
MsgErrorCode(code) ==
    Cross \o <<"E","r","r","o","r"," ","(">> \o Digits(code) \o <<")">>
MsgErrorExc(text) == Cross \o <<"E","r","r","o","r",":"," ">> \o text

Failure(msg) ==
    [raised |-> FALSE, success |-> FALSE, status |-> "", progress |-> 0,
     links |-> <<>>, error |-> msg]
Success(status, progress, links) ==
    [raised |-> FALSE, success |-> TRUE, status |-> status,
     progress |-> progress, links |-> links, error |-> <<>>]
Raised ==
    [raised |-> TRUE, success |-> FALSE, status |-> "", progress |-> 0,
     links |-> <<>>, error |-> <<>>]

\* Mutant of get_torrent_downloads: no catch-all handler, an exception of
\* the request leaves the function
get_torrent_downloads_no_catch(api_key, reply) ==
    IF api_key = "" THEN Failure(MsgNoKey)
    ELSE IF reply.kind = "exception" THEN Raised
    ELSE IF reply.kind = "timeout" THEN Failure(MsgTimeout)
    ELSE IF reply.code = 200 THEN
        IF reply.body.status = "downloaded"
        THEN Success("downloaded", reply.body.progress, reply.body.links)
        ELSE Success(reply.body.status, reply.body.progress, <<>>)
    ELSE IF reply.code = 401 THEN Failure(MsgInvalidKey)
    ELSE Failure(MsgErrorCode(reply.code))

get_torrent_downloads(api_key, reply) ==
    IF api_key = "" THEN Failure(MsgNoKey)
    ELSE IF reply.kind = "timeout" THEN Failure(MsgTimeout)
    ELSE IF reply.kind = "exception" THEN Failure(MsgErrorExc(reply.text))
    ELSE IF reply.code = 200 THEN
        IF reply.body.status = "downloaded"
        THEN Success("downloaded", reply.body.progress, reply.body.links)
        ELSE Success(reply.body.status, reply.body.progress, <<>>)
    ELSE IF reply.code = 401 THEN Failure(MsgInvalidKey)
    ELSE Failure(MsgErrorCode(reply.code))

-----------------------------------------------------------------------------
(* DownloadMonitor: the dict and the pieces of one loop iteration          *)

HasKey(d, key) == \E i \in 1..Len(d) : d[i].key = key
IndexOf(d, key) == CHOOSE i \in 1..Len(d) : d[i].key = key
Lookup(d, key) == d[IndexOf(d, key)].td
DictKeys(d) == {d[i].key : i \in 1..Len(d)}

\* Mutant of Store: a registration always adds an entry
StoreAppend(d, key, td) == Append(d, [key |-> key, td |-> td])

\* d[key] = td: an existing key keeps its place, a new one goes last
Store(d, key, td) ==
    IF HasKey(d, key)
    THEN [d EXCEPT ![IndexOf(d, key)] = [key |-> key, td |-> td]]
    ELSE Append(d, [key |-> key, td |-> td])

\* del d[key], for a key that is present
Delete(d, key) ==
    LET i == IndexOf(d, key)
    IN  SubSeq(d, 1, i - 1) \o SubSeq(d, i + 1, Len(d))

\* for key in keys: del d[key]; a missing key raises KeyError and leaves the
\* deletions made so far
RECURSIVE DeleteEach(_, _)
DeleteEach(d, keys) ==
    IF keys = <<>> THEN [dict |-> d, raised |-> FALSE]
    ELSE IF ~HasKey(d, Head(keys)) THEN [dict |-> d, raised |-> TRUE]
    ELSE DeleteEach(Delete(d, Head(keys)), Tail(keys))

NewTorrent(user_id, room_id, torrent_id, api_key, filename) ==
    [user_id |-> user_id, room_id |-> room_id, torrent_id |-> torrent_id,
     api_key |-> api_key, filename |-> filename, status |-> "downloading",
     progress |-> 0, links |-> <<>>, notified |-> FALSE]

\* Mutant of IsNotFound: no error is taken as not-found
IsNotFoundNever(error_msg) == FALSE

\* '404' in error_msg
IsNotFound(error_msg) == Contains(<<"4","0","4">>, error_msg)

\* Mutant of ShouldNotify: the polled status is not read
ShouldNotifyAnyStatus(status, notified) == ~notified

\* status == "downloaded" and not torrent_data["notified"]
ShouldNotify(status, notified) == status = "downloaded" /\ ~notified

\* Mutant of CallbackEscapes: no try around the callback
CallbackEscapesUncaught(outcome) == outcome = "raise"

\* try: await callback(...) except Exception: log  -- nothing escapes
CallbackEscapes(outcome) == FALSE

\* Mutant of Evict: only the failed keys are deleted
EvictFailedOnly(d, done, gone) == DeleteEach(d, gone)

\* for key in completed: del ...; for key in failed: del ...
Evict(d, done, gone) == DeleteEach(d, done \o gone)

-----------------------------------------------------------------------------
(* DownloadMonitor: state after __init__, and the operations               *)

InitDownload ==
    /\ active_torrents = <<>>
    /\ pc = "sleep"
    /\ items = <<>>
    /\ completed = <<>>
    /\ failed = <<>>
    /\ cbCount = [k \in Keys |-> 0]
    /\ pollsMatched = [k \in Keys |-> 0]
    /\ sawNotFound = [k \in Keys |-> FALSE]
    /\ snapKeys = <<>>
    /\ queried = <<>>
    /\ queryFailedIn = {}
    /\ cbRaisedIn = {}
    /\ regDuringCycle = {}
    /\ cycleError = FALSE
    /\ cycleNo = 0
    /\ changedIn = {}
    /\ cbIn = {}
    /\ otherIn = {}
    /\ cbData = {}
    /\ passedModified = FALSE
    /\ sleep_delay = 0
    /\ watched = ""
    /\ watchEnd = "none"

\* add_torrent: may run whenever start_monitoring is suspended at an await
AddTorrent(user_id, room_id, torrent_id, api_key, filename) ==
    LET key == KeyOf(user_id, torrent_id)
        fresh == ~HasKey(active_torrents, key)
    IN  /\ active_torrents' =
               Store(active_torrents, key,
                     NewTorrent(user_id, room_id, torrent_id, api_key, filename))
        /\ items' = [i \in 1..Len(items) |->
                        IF items[i].key = key
                        THEN [items[i] EXCEPT !.live = FALSE]
                        ELSE items[i]]
        /\ cbCount' = IF fresh THEN [cbCount EXCEPT ![key] = 0] ELSE cbCount
        /\ sawNotFound' =
               IF fresh THEN [sawNotFound EXCEPT ![key] = FALSE] ELSE sawNotFound
        /\ pollsMatched' = [pollsMatched EXCEPT ![key] = 0]
        /\ regDuringCycle' =
               IF pc = "sleep" THEN regDuringCycle ELSE regDuringCycle \cup {key}
        /\ UNCHANGED <<pc, completed, failed, snapKeys, queried, queryFailedIn,
                       cbRaisedIn, cycleError, cycleNo, changedIn, cbIn,
                       otherIn, cbData, passedModified, sleep_delay,
                       watchEnd>>
        /\ UNCHANGED <<logvars, clvars, npmvars>>

\* command.py line 98: handle_command calls handle_magnet(sender, args,
\* user_config) without its room_id, so handle_magnet's default "" is the
\* room_id it registers the job with
MagnetRoom(room_id) == ""

\* the room_id values add_torrent is called with
RoomArgs == {MagnetRoom(r) : r \in Rooms}

\* handle_command for a magnet command sent in room_id, when add_magnet
\* succeeded: handle_magnet registers the job
HandleMagnet(sender, room_id, torrent_id, api_key, filename) ==
    /\ AddTorrent(sender, MagnetRoom(room_id), torrent_id, api_key, filename)
    /\ UNCHANGED watched

\* lines 121 and 125: the sleep after a cycle that ended normally, and
\* after one that ended in the handler of line 123
SleepAfter(raised) == IF raised THEN 10 ELSE 30

\* lines 59-64: a cycle starts; with nothing to iterate it runs through the
\* two (empty) removal loops to the sleep of line 121
CycleStart ==
    /\ pc = "sleep"
    /\ items' = [i \in 1..Len(active_torrents) |->
                    [key |-> active_torrents[i].key,
                     td |-> active_torrents[i].td, live |-> TRUE]]
    /\ pc' = IF active_torrents = <<>> THEN "sleep" ELSE "query"
    /\ completed' = <<>>
    /\ failed' = <<>>
    /\ snapKeys' = [i \in 1..Len(active_torrents) |-> active_torrents[i].key]
    /\ queried' = <<>>
    /\ queryFailedIn' = {}
    /\ cbRaisedIn' = {}
    /\ regDuringCycle' = {}
    /\ cycleError' = FALSE
    /\ cycleNo' = 1 - cycleNo
    /\ changedIn' = {}
    /\ cbIn' = {}
    /\ otherIn' = {}
    /\ cbData' = {}
    /\ sleep_delay' = IF active_torrents = <<>> THEN SleepAfter(FALSE) ELSE 0
    /\ UNCHANGED <<active_torrents, cbCount, pollsMatched, sawNotFound,
                   passedModified, watched, watchEnd>>
    /\ UNCHANGED <<logvars, clvars, npmvars>>

\* Mutant of EndIteration: no loop around the cycle, start_monitoring returns
\* after the removals
EndIterationReturns(act, done, gone) ==
    /\ items' = Tail(items)
    /\ pc' = IF Len(items) > 1 THEN "query" ELSE "returned"
    /\ active_torrents' = IF Len(items) > 1 THEN act ELSE Evict(act, done, gone).dict
    /\ completed' = IF Len(items) > 1 THEN done ELSE <<>>
    /\ failed' = IF Len(items) > 1 THEN gone ELSE <<>>
    /\ cycleError' = FALSE
    /\ sleep_delay' = sleep_delay

\* What follows the body of an iteration: the await of the next iteration
\* or, after the last one, lines 110-121.
EndIteration(act, done, gone) ==
    IF Len(items) > 1
    THEN /\ items' = Tail(items)
         /\ pc' = "query"
         /\ active_torrents' = act
         /\ completed' = done
         /\ failed' = gone
         /\ cycleError' = FALSE
         /\ sleep_delay' = sleep_delay
    ELSE LET r == Evict(act, done, gone)
         IN  /\ items' = <<>>
             /\ pc' = "sleep"
             /\ active_torrents' = r.dict
             /\ completed' = <<>>
             /\ failed' = <<>>
             /\ cycleError' = r.raised
             /\ sleep_delay' = SleepAfter(r.raised)

\* lines 123-125: an exception leaves the try block, the rest of the cycle
\* (the remaining iterations and both removal loops) is skipped
AbortCycle(act) ==
    /\ items' = <<>>
    /\ pc' = "sleep"
    /\ active_torrents' = act
    /\ completed' = <<>>
    /\ failed' = <<>>
    /\ cycleError' = TRUE
    /\ sleep_delay' = SleepAfter(TRUE)

\* the first thing that happens to the followed key is kept
Watch(key, what) ==
    IF key = watched /\ watchEnd = "none" THEN what ELSE watchEnd

NextMatched(m, status) ==
    IF m = 0 /\ status = "downloading" THEN 1
    ELSE IF m = 1 /\ status = "downloading" THEN 2
    ELSE IF m = 2 /\ status = "downloaded" THEN 3
    ELSE -1

\* lines 65-106: the query of the running iteration returns, the result is
\* handled up to the next await
QueryReturn(reply) ==
    /\ pc = "query"
    /\ LET it == Head(items)
           key == it.key
           result == get_torrent_downloads(it.td.api_key, reply)
           how == IF reply.kind = "http" THEN "status" ELSE "raised"
       IN  /\ queried' = Append(queried, key)
           /\ IF result.raised
              THEN /\ AbortCycle(active_torrents)
                   /\ queryFailedIn' = queryFailedIn \cup {<<key, how>>}
                   /\ watchEnd' = Watch(key, "bad")
                   /\ UNCHANGED <<cbCount, pollsMatched, sawNotFound,
                                  changedIn, cbIn, otherIn, cbData,
                                  passedModified>>
              ELSE IF ~result.success
              THEN /\ EndIteration(active_torrents, completed,
                                   IF IsNotFound(result.error)
                                   THEN Append(failed, key) ELSE failed)
                   /\ queryFailedIn' = queryFailedIn \cup {<<key, how>>}
                   /\ sawNotFound' =
                          IF reply.kind = "http" /\ reply.code = 404
                          THEN [sawNotFound EXCEPT ![key] = TRUE]
                          ELSE sawNotFound
                   /\ watchEnd' = Watch(key, "bad")
                   /\ UNCHANGED <<cbCount, pollsMatched, changedIn, cbIn,
                                  otherIn, cbData, passedModified>>
              ELSE LET notify == ShouldNotify(result.status, it.td.notified)
                       td1 == [it.td EXCEPT !.status = result.status,
                                            !.progress = result.progress,
                                            !.links = result.links,
                                            !.notified = (@ \/ notify)]
                       act == IF it.live
                              THEN Store(active_torrents, key, td1)
                              ELSE active_torrents
                   IN  /\ pollsMatched' =
                              IF it.live
                              THEN [pollsMatched EXCEPT
                                      ![key] = NextMatched(@, result.status)]
                              ELSE pollsMatched
                       /\ UNCHANGED <<queryFailedIn, sawNotFound>>
                       /\ changedIn' = IF result.status # it.td.status
                                       THEN changedIn \cup {key} ELSE changedIn
                       /\ cbIn' = IF notify THEN cbIn \cup {key} ELSE cbIn
                       /\ otherIn' = IF result.status # "downloaded"
                                     THEN otherIn \cup {key} ELSE otherIn
                       /\ cbData' =
                              IF notify
                              THEN cbData \cup {[key |-> key,
                                                 status |-> td1.status,
                                                 notified |-> td1.notified,
                                                 links |-> td1.links,
                                                 response |-> reply.body.links]}
                              ELSE cbData
                       /\ passedModified' =
                              (passedModified \/ (it.td.notified /\ td1 # it.td))
                       /\ watchEnd' =
                              IF notify THEN Watch(key, "done")
                              ELSE IF result.status # "downloaded"
                              THEN Watch(key, "bad")
                              ELSE watchEnd
                       /\ IF notify
                          THEN /\ pc' = "callback"
                               /\ items' = <<[it EXCEPT !.td = td1]>> \o Tail(items)
                               /\ active_torrents' = act
                               /\ completed' = Append(completed, key)
                               /\ failed' = failed
                               /\ cycleError' = FALSE
                               /\ sleep_delay' = sleep_delay
                               /\ cbCount' = [cbCount EXCEPT
                                                ![key] = IF @ < 2 THEN @ + 1 ELSE @]
                          ELSE /\ EndIteration(act, completed, failed)
                               /\ UNCHANGED cbCount
    /\ UNCHANGED <<snapKeys, cbRaisedIn, regDuringCycle, cycleNo, watched>>
    /\ UNCHANGED <<logvars, clvars, npmvars>>

\* lines 101-108: the awaited callback returns or raises
CallbackReturn(outcome) ==
    /\ pc = "callback"
    /\ cbRaisedIn' = IF outcome = "raise"
                     THEN cbRaisedIn \cup {Head(items).key} ELSE cbRaisedIn
    /\ IF CallbackEscapes(outcome)
       THEN AbortCycle(active_torrents)
       ELSE EndIteration(active_torrents, completed, failed)
    /\ UNCHANGED <<cbCount, pollsMatched, sawNotFound, snapKeys, queried,
                   queryFailedIn, regDuringCycle, cycleNo, changedIn, cbIn,
                   otherIn, cbData, passedModified, watched, watchEnd>>
    /\ UNCHANGED <<logvars, clvars, npmvars>>

NextDownload ==
    \/ \E j \in Jobs, r \in Rooms, a \in ApiKeys, f \in Filenames :
           HandleMagnet(j[1], r, j[2], a, f)
    \/ CycleStart
    \/ \E reply \in Replies : QueryReturn(reply)
    \/ \E outcome \in CallbackOutcomes : CallbackReturn(outcome)

\* The login monitor before start_monitoring, with an empty log file
LoginNotStarted ==
    /\ file = [exists |-> TRUE, inode |-> 1, content |-> <<>>]
    /\ last_position = 0
    /\ last_inode = 0
    /\ lpc = "new"
    /\ nextSerial = 1
    /\ pendingWrite = <<>>
    /\ lineStart = [n \in 1..MaxLines |-> -1]
    /\ startPos = 0
    /\ delivered = <<>>
    /\ dropped = {}
    /\ disturbed = FALSE
    /\ cbRaised = FALSE
    /\ fedPartial = FALSE
    /\ lastPoll = [kind |-> "none", rotated |-> FALSE, from |-> 0,
                   readAll |-> FALSE, kept |-> TRUE]
    /\ monitor_task = "None"
    /\ log_sleep_delay = 0
    /\ stoppedRunning = FALSE

\* no line has been passed to _process_line
NoLineProcessed ==
    /\ log_line = <<>>
    /\ callback_calls = <<>>

CHECK_INTERVAL == 300
RESTART_COOLDOWN == 3600
MAX_RETRIES == 3

\* The clock when the watchdog is loaded: a time stamp counted from the
\* epoch, more than one cooldown after it.
StartTime == 86400

\* The clock value up to which the watchdog is followed
MaxTime == StartTime + 5400

NoIteration ==
    [is_available |-> TRUE, called |-> FALSE, run |-> 0, refused |-> FALSE,
     cooling |-> FALSE, succeeded |-> FALSE, timeBefore |-> 0,
     countBefore |-> 0]

\* npm.py loaded, monitor_loop not yet entered
NpmLoaded ==
    /\ last_restart_time = 0
    /\ restart_count = 0
    /\ consecutive_failures = 0
    /\ now = StartTime
    /\ npc = "new"
    /\ failedRun = 0
    /\ restartTimes = <<>>
    /\ lastIteration = NoIteration

\* The state after both monitors were constructed and npm.py was loaded
Init ==
    /\ InitDownload
    /\ LoginNotStarted
    /\ NoLineProcessed
    /\ NpmLoaded

\* The download monitor alone
SpecDownload == Init /\ [][NextDownload]_vars

\* The download monitor with its awaits returning: asyncio.sleep returns, the
\* status request ends within its 10 s timeout, the callback ends
SpecDownloadLive ==
    /\ SpecDownload
    /\ WF_vars(CycleStart)
    /\ WF_vars(\E reply \in Replies : QueryReturn(reply))
    /\ WF_vars(\E outcome \in CallbackOutcomes : CallbackReturn(outcome))

\* a magnet command whose job an observer follows from its registration on
FollowedMagnet(sender, room_id, torrent_id, api_key, filename) ==
    /\ watched = ""
    /\ AddTorrent(sender, MagnetRoom(room_id), torrent_id, api_key, filename)
    /\ watched' = KeyOf(sender, torrent_id)

\* the file name does not matter to what is followed: one is enough
FollowedFilenames == {"f1"}

NextDownloadFollowed ==
    \/ \E j \in Jobs, r \in Rooms, a \in ApiKeys, f \in FollowedFilenames :
           \/ HandleMagnet(j[1], r, j[2], a, f)
           \/ FollowedMagnet(j[1], r, j[2], a, f)
    \/ CycleStart
    \/ \E reply \in Replies : QueryReturn(reply)
    \/ \E outcome \in CallbackOutcomes : CallbackReturn(outcome)

\* The download monitor with its awaits returning, and one job followed
\* from some point of its life on
SpecDownloadFollowed ==
    /\ Init /\ [][NextDownloadFollowed]_vars
    /\ WF_vars(CycleStart)
    /\ WF_vars(\E reply \in Replies : QueryReturn(reply))
    /\ WF_vars(\E outcome \in CallbackOutcomes : CallbackReturn(outcome))

-----------------------------------------------------------------------------
(* Claims about the download monitor                                       *)

\* C1: the completion callback is invoked at most once for a registered job
\* (its key) while the key stays in the active set, whatever registrations,
\* cycles and query results occur.
C1_CallbackAtMostOnce == \A k \in Keys : cbCount[k] <= 1

\* C1 witness: a cycle has finished in which a job was notified once and its
\* key was registered again while the cycle was suspended.
C1_Witness ==
    \E k \in Keys :
        /\ pc = "sleep"
        /\ cbCount[k] = 1
        /\ k \in regDuringCycle
        /\ \E i \in 1..Len(queried) : queried[i] = k

\* C3: when a cycle has ended no entry of the active set has notified = true,
\* and a key whose callback was invoked is no longer in the active set.
C3_NotifiedEvictedSameCycle ==
    pc = "sleep" =>
        /\ \A i \in 1..Len(active_torrents) : ~active_torrents[i].td.notified
        /\ \A k \in Keys : cbCount[k] >= 1 => ~HasKey(active_torrents, k)

\* C3 witness: a cycle over two jobs has ended, one was notified and is gone,
\* the other is still active.
C3_Witness ==
    /\ pc = "sleep"
    /\ Len(queried) = 2
    /\ Len(active_torrents) = 1
    /\ \E k \in Keys : cbCount[k] = 1 /\ ~HasKey(active_torrents, k)

\* C4: a job polled downloading, downloading, downloaded since its
\* registration has had exactly one callback invocation, made in the third
\* poll and not before, and is not in the active set once that cycle ended.
C4_ThreePolls ==
    \A k \in Keys :
        /\ pollsMatched[k] \in {1, 2} => cbCount[k] = 0
        /\ pollsMatched[k] = 3 =>
              /\ cbCount[k] = 1
              /\ pc = "sleep" => ~HasKey(active_torrents, k)

\* C4 witness: the cycle of the third poll has ended.
C4_Witness == \E k \in Keys : pollsMatched[k] = 3 /\ pc = "sleep"

\* C7: a job whose query answered 404 has had no callback invocation and is
\* not in the active set once that cycle ended.
C7_NotFoundEvictedSilently ==
    \A k \in Keys :
        sawNotFound[k] =>
            /\ cbCount[k] = 0
            /\ pc = "sleep" => ~HasKey(active_torrents, k)

\* C7 witness: a cycle in which a query answered 404 has ended.
C7_Witness ==
    \E k \in Keys :
        /\ sawNotFound[k]
        /\ pc = "sleep"
        /\ \E i \in 1..Len(queried) : queried[i] = k

\* C8: a cycle in which a query failed was not aborted: every job active at
\* its start was queried in it, in iteration order.
C8_FailureDoesNotAbort ==
    (pc = "sleep" /\ queryFailedIn # {}) => (queried = snapKeys /\ ~cycleError)

\* C8 witness: the request of the first job raised and the second job was
\* queried after it in the same cycle.
C8_Witness ==
    /\ pc = "sleep"
    /\ Len(queried) = 2
    /\ <<queried[1], "raised">> \in queryFailedIn

\* C9: after a cycle in which the callback raised for a job, the job is not
\* in the active set, its callback was invoked exactly once, and every job
\* active at the start of the cycle was queried.
C9_CallbackRaiseStillEvicts ==
    (pc = "sleep" /\ cbRaisedIn # {}) =>
        /\ queried = snapKeys
        /\ ~cycleError
        /\ \A k \in cbRaisedIn :
               cbCount[k] >= 1 => (cbCount[k] = 1 /\ ~HasKey(active_torrents, k))

\* C9 witness: the callback raised for the first job of a cycle, the second
\* job was queried after it, and the first job is gone.
C9_Witness ==
    /\ pc = "sleep"
    /\ Len(queried) = 2
    /\ queried[1] \in cbRaisedIn
    /\ cbCount[queried[1]] = 1
    /\ ~HasKey(active_torrents, queried[1])

\* C10 (as claimed): every key registered while a cycle was suspended is in
\* the active set when that cycle has finished, and the cycle ended without
\* an error.
C10_RegisteredDuringCycleKept ==
    pc = "sleep" =>
        /\ regDuringCycle \subseteq DictKeys(active_torrents)
        /\ ~cycleError

\* C11: a call of add_torrent for an (owner, job-id) that has an active
\* entry leaves exactly one entry under that key, equal to a fresh record of
\* the arguments of this call (status downloading, notified false), and adds
\* no entry.
C11_ReRegistrationReplaces ==
    [][\A j \in Jobs, r \in RoomArgs, a \in ApiKeys, f \in Filenames :
          (/\ HasKey(active_torrents, KeyOf(j[1], j[2]))
           /\ Lookup(active_torrents, KeyOf(j[1], j[2])).user_id = j[1]
           /\ Lookup(active_torrents, KeyOf(j[1], j[2])).torrent_id = j[2]
           /\ AddTorrent(j[1], r, j[2], a, f))
          => /\ Cardinality({i \in 1..Len(active_torrents') :
                                active_torrents'[i].key = KeyOf(j[1], j[2])}) = 1
             /\ Lookup(active_torrents', KeyOf(j[1], j[2])) =
                    NewTorrent(j[1], r, j[2], a, f)
             /\ Len(active_torrents') = Len(active_torrents)]_vars

\* C11 witness: the job (a, c) was active with filename f1 when the running
\* cycle started, was registered again with filename f2 during the cycle,
\* and the one active entry of its key holds f2.
C11_Witness ==
    /\ pc # "sleep"
    /\ KeyOf("a", "c") \in regDuringCycle
    /\ \E i \in 1..Len(items) :
           /\ items[i].key = KeyOf("a", "c")
           /\ ~items[i].live
           /\ items[i].td.filename = "f1"
    /\ Cardinality({i \in 1..Len(active_torrents) :
                       active_torrents[i].key = KeyOf("a", "c")}) = 1
    /\ Lookup(active_torrents, KeyOf("a", "c")).filename = "f2"
    /\ ~Lookup(active_torrents, KeyOf("a", "c")).notified

\* C19: under SpecDownloadLive a cycle starts again and again, whatever the
\* queries and callbacks of the cycles before it did.
C19_AlwaysAnotherCycle == []<><<CycleStart>>_vars

\* C19 witness: a cycle has ended in which a request raised and a callback
\* raised.
C19_Witness ==
    /\ pc = "sleep"
    /\ cbRaisedIn # {}
    /\ \E k \in Keys : <<k, "raised">> \in queryFailedIn

\* C20: a callback is invoked in a cycle only for a job whose polled status
\* differs from the status stored for it by the poll before; a cycle in
\* which no status changed invokes no callback.
C20_NoChangeNoCallback == cbIn \subseteq changedIn

\* C20 witness: a cycle has ended that polled two jobs, both polled as
\* downloading in this cycle and in the one before, and no callback was
\* invoked in it.
C20_Witness ==
    /\ pc = "sleep"
    /\ Len(queried) = 2
    /\ queried = snapKeys
    /\ \A i \in 1..Len(queried) : pollsMatched[queried[i]] = 2
    /\ changedIn = {}
    /\ cbIn = {}

\* C21: a job whose query succeeded in a cycle with a status other than
\* downloaded has no callback invoked in that cycle and is in the active set
\* during the cycle and after it.
C21_OtherStatusKeepsJob ==
    \A k \in otherIn : k \notin cbIn /\ HasKey(active_torrents, k)

\* C21 witness: a cycle over two jobs has ended; one was polled with status
\* error and is still active, the other was notified.
C21_Witness ==
    /\ pc = "sleep"
    /\ Len(queried) = 2
    /\ cbIn # {}
    /\ \E k \in otherIn :
           /\ HasKey(active_torrents, k)
           /\ Lookup(active_torrents, k).status = "error"

\* C22 (as claimed): a key leaves the active set only in a step of a cycle in
\* which its callback was invoked or in which its query was answered with
\* HTTP 404.
C22_LeavesOnlyNotifiedOrNotFound ==
    [][\A k \in Keys :
          (HasKey(active_torrents, k) /\ ~HasKey(active_torrents', k))
          => (k \in cbIn' \/ sawNotFound'[k])]_vars

\* C29 (as claimed): a job whose query failed in a cycle, and was not
\* answered with HTTP 404, is in the active set during the cycle and after it
\* and has no callback invoked in that cycle.
C29_TransientFailureKeepsJob ==
    \A k \in Keys :
        ((\E how \in {"raised", "status"} : <<k, how>> \in queryFailedIn)
            /\ ~sawNotFound[k])
        => (HasKey(active_torrents, k) /\ k \notin cbIn)

\* C30 (as claimed): the job a magnet command registers carries the id of
\* the room the command was sent in.
C30_JobCarriesRequestRoom ==
    [][\A j \in Jobs, r \in Rooms, a \in ApiKeys, f \in Filenames :
          HandleMagnet(j[1], r, j[2], a, f)
          => Lookup(active_torrents', KeyOf(j[1], j[2])).room_id = r]_vars

\* C33: the torrent_data passed to the completion callback has status
\* downloaded, notified true and the links of the response that triggered
\* the callback, and the monitor never writes to it afterwards, neither in
\* a later cycle nor in a later registration of the key.
C33_CallbackDataFinal ==
    /\ \A d \in cbData :
           /\ d.status = "downloaded"
           /\ d.notified
           /\ d.links = d.response
    /\ ~passedModified

\* C33 witness: a callback was invoked with data carrying the link of the
\* response, the cycle has ended, and the key was registered again since.
C33_Witness ==
    /\ pc = "sleep"
    /\ \E d \in cbData :
           /\ d.links = <<"l1">>
           /\ HasKey(active_torrents, d.key)
           /\ ~Lookup(active_torrents, d.key).notified

\* C34 (as claimed): a job for which, from its registration on, no query
\* does anything but succeed with status downloaded has its callback
\* invoked eventually.
C34_DownloadedJobNotified ==
    \A k \in Keys : (watched = k) ~> (watchEnd # "none")

\* C35 (as claimed): registering a pair leaves every entry of a different
\* (user_id, torrent_id) pair in the active set as it is.
C35_DistinctPairsDistinctEntries ==
    [][\A j \in Jobs, r \in Rooms, a \in ApiKeys, f \in Filenames :
          HandleMagnet(j[1], r, j[2], a, f)
          => \A i \in 1..Len(active_torrents) :
                 <<active_torrents[i].td.user_id,
                   active_torrents[i].td.torrent_id>> # j
                 => \E n \in 1..Len(active_torrents') :
                        active_torrents'[n] = active_torrents[i]]_vars

\* the key is listed for removal as not found, or is removed without a
\* callback, in this step
MarkedNotFound(k) ==
    \/ \E i \in 1..Len(failed') : failed'[i] = k
    \/ /\ k \notin cbIn'
       /\ HasKey(active_torrents, k)
       /\ ~HasKey(active_torrents', k)

\* C36 (as claimed): the query of a job leads to its removal without
\* notification only when the remote answered with HTTP status 404.
C36_EvictedOnlyOnHttp404 ==
    [][\A reply \in Replies :
          (pc = "query" /\ QueryReturn(reply)
              /\ MarkedNotFound(Head(items).key))
          => (reply.kind = "http" /\ reply.code = 404)]_vars

-----------------------------------------------------------------------------
(* One cycle of the download monitor as a function of the iteration order  *)

\* the arguments of one callback invocation
Call(td) == [user_id |-> td.user_id, room_id |-> td.room_id, torrent_data |-> td]

\* lines 83-97: the entry after a successful query
Polled(td, result, notify) ==
    [td EXCEPT !.status = result.status, !.progress = result.progress,
               !.links = result.links, !.notified = (@ \/ notify)]

\* lines 64-118 for the keys of order, with no registration in between:
\* the active set after the cycle, the callbacks invoked, and whether the
\* cycle ended in the handler of line 123
RECURSIVE CycleFrom(_, _, _, _, _, _, _)

\* lines 101-108: after the callback was awaited
AfterCallback(act, order, replyOf, cbOf, done, gone, calls, key) ==
    IF CallbackEscapes(cbOf[key])
    THEN [act |-> act, calls |-> calls, error |-> TRUE]
    ELSE CycleFrom(act, Tail(order), replyOf, cbOf, done, gone, calls)

\* lines 65-108 for one key
IterationOf(act, order, replyOf, cbOf, done, gone, calls, key, td, result) ==
    IF result.raised
    THEN [act |-> act, calls |-> calls, error |-> TRUE]
    ELSE IF ~result.success
    THEN CycleFrom(act, Tail(order), replyOf, cbOf, done,
                   IF IsNotFound(result.error) THEN Append(gone, key) ELSE gone,
                   calls)
    ELSE IF ShouldNotify(result.status, td.notified)
    THEN AfterCallback(Store(act, key, Polled(td, result, TRUE)), order,
                       replyOf, cbOf, Append(done, key), gone,
                       calls \cup {Call(Polled(td, result, TRUE))}, key)
    ELSE CycleFrom(Store(act, key, Polled(td, result, FALSE)), Tail(order),
                   replyOf, cbOf, done, gone, calls)

CycleFrom(act, order, replyOf, cbOf, done, gone, calls) ==
    IF order = <<>>
    THEN [act |-> Evict(act, done, gone).dict, calls |-> calls,
          error |-> Evict(act, done, gone).raised]
    ELSE IterationOf(act, order, replyOf, cbOf, done, gone, calls,
                     Head(order), Lookup(act, Head(order)),
                     get_torrent_downloads(Lookup(act, Head(order)).api_key,
                                           replyOf[Head(order)]))

\* the keys of the dict in insertion order: list(self.active_torrents)
KeyList(d) == [i \in 1..Len(d) |-> d[i].key]

\* every order in which the keys of the dict can be iterated
Orders(d) ==
    {o \in [1..Len(d) -> DictKeys(d)] :
        \A i, j \in 1..Len(d) : i # j => o[i] # o[j]}

\* a whole cycle with no registration during it, iterating in the given
\* order; the observers of single polls are not kept in this step
WholeCycle(order, replyOf, cbOf) ==
    /\ pc = "sleep"
    /\ active_torrents # <<>>
    /\ order \in Orders(active_torrents)
    /\ LET r == CycleFrom(active_torrents, order, replyOf, cbOf, <<>>, <<>>, {})
       IN  /\ active_torrents' = r.act
           /\ cbIn' = {c.torrent_data.user_id \o "_" \o c.torrent_data.torrent_id :
                          c \in r.calls}
           /\ cycleError' = r.error
    /\ snapKeys' = order
    /\ UNCHANGED <<pc, items, completed, failed, cbCount, pollsMatched,
                   sawNotFound, queried, queryFailedIn, cbRaisedIn,
                   regDuringCycle, cycleNo, changedIn, otherIn, cbData,
                   passedModified, sleep_delay, watched, watchEnd>>
    /\ UNCHANGED <<logvars, clvars, npmvars>>

NextCycle ==
    \/ \E j \in Jobs, r \in Rooms, a \in ApiKeys, f \in Filenames :
           HandleMagnet(j[1], r, j[2], a, f)
    \/ \E order \in Orders(active_torrents) :
           \E replyOf \in [DictKeys(active_torrents) -> Replies],
              cbOf \in [DictKeys(active_torrents) -> CallbackOutcomes] :
               WholeCycle(order, replyOf, cbOf)

\* Registrations and whole cycles in any iteration order
SpecCycle == Init /\ [][NextCycle]_vars

\* two cycles invoked the same callbacks and left the same active set
SameOutcome(a, b) == a.calls = b.calls /\ a.act = b.act

\* C23: for every active set, all query outcomes and callback outcomes per
\* job, a cycle iterating the jobs in any order invokes the same callbacks
\* and leaves the same active set as the cycle iterating in insertion order.
C23_OrderIndependent ==
    \A order \in Orders(active_torrents) :
        \A replyOf \in [DictKeys(active_torrents) -> Replies],
           cbOf \in [DictKeys(active_torrents) -> CallbackOutcomes] :
            SameOutcome(CycleFrom(active_torrents, order, replyOf, cbOf,
                                  <<>>, <<>>, {}),
                        CycleFrom(active_torrents, KeyList(active_torrents),
                                  replyOf, cbOf, <<>>, <<>>, {}))

\* C23 witness: a cycle over two jobs was run in the reverse of the
\* insertion order; one job was notified and evicted, the other is active.
C23_Witness ==
    /\ Len(snapKeys) = 2
    /\ Len(active_torrents) = 1
    /\ cbIn = {snapKeys[1]}
    /\ active_torrents[1].key = snapKeys[2]
    /\ active_torrents[1].td.status = "error"

-----------------------------------------------------------------------------
(* Regular expressions as re.search applies them: leftmost match, greedy   *)
(* quantifiers with backtracking, numbered groups                          *)

DigitChars == {"0", "1", "2", "3", "4", "5", "6", "7", "8", "9"}
SpaceChars == {" ", "\t", "\n", "\r"}

\* \d, \s, \S and . (which does not match a newline)
InClass(cls, c) ==
    CASE cls = "d" -> c \in DigitChars
      [] cls = "s" -> c \in SpaceChars
      [] cls = "S" -> c \notin SpaceChars
      [] cls = "any" -> c # "\n"

Lit(chars) == [t |-> "lit", s |-> chars, cls |-> "", g |-> 0]
OptLit(chars) == [t |-> "opt", s |-> chars, cls |-> "", g |-> 0]
Plus(cls) == [t |-> "plus", s |-> <<>>, cls |-> cls, g |-> 0]
Star(cls) == [t |-> "star", s |-> <<>>, cls |-> cls, g |-> 0]
Open(g) == [t |-> "open", s |-> <<>>, cls |-> "", g |-> g]
Close(g) == [t |-> "close", s |-> <<>>, cls |-> "", g |-> g]

NoGroups == [g \in 1..3 |-> [from |-> 1, to |-> 0]]
NoMatch == [ok |-> FALSE, end |-> 0, groups |-> NoGroups]

LitAt(chars, s, si) ==
    /\ si + Len(chars) - 1 <= Len(s)
    /\ \A j \in 1..Len(chars) : s[si + j - 1] = chars[j]

Least(S) == CHOOSE i \in S : \A j \in S : i <= j
Greatest(S) == CHOOSE i \in S : \A j \in S : i >= j

\* number of consecutive characters of the class from position si on
RunLen(cls, s, si) ==
    Least({j \in si..(Len(s) + 1) : j > Len(s) \/ ~InClass(cls, s[j])}) - si

\* the first alternative when it matched, else the second (backtracking)
FirstOk(r, alt) == IF r.ok THEN r ELSE alt

\* match atoms ri.. of re against s from position si on
RECURSIVE MatchAt(_, _, _, _, _)
RECURSIVE TryRep(_, _, _, _, _, _, _)
RECURSIVE LongestOk(_, _, _, _, _, _)
MatchAt(re, s, ri, si, gs) ==
    IF ri > Len(re) THEN [ok |-> TRUE, end |-> si - 1, groups |-> gs]
    ELSE LET a == re[ri]
         IN  CASE a.t = "lit" ->
                    IF LitAt(a.s, s, si)
                    THEN MatchAt(re, s, ri + 1, si + Len(a.s), gs)
                    ELSE NoMatch
               [] a.t = "opt" ->
                    FirstOk(IF LitAt(a.s, s, si)
                            THEN MatchAt(re, s, ri + 1, si + Len(a.s), gs)
                            ELSE NoMatch,
                            MatchAt(re, s, ri + 1, si, gs))
               [] a.t = "plus" ->
                    TryRep(re, s, ri, si, RunLen(a.cls, s, si), 1, gs)
               [] a.t = "star" ->
                    TryRep(re, s, ri, si, RunLen(a.cls, s, si), 0, gs)
               [] a.t = "open" ->
                    MatchAt(re, s, ri + 1, si, [gs EXCEPT ![a.g].from = si])
               [] a.t = "close" ->
                    MatchAt(re, s, ri + 1, si, [gs EXCEPT ![a.g].to = si - 1])

\* greedy repetition: the longest run first, then one character less, ...
\* so the longest count for which the rest of the pattern matches
TryRep(re, s, ri, si, k, min, gs) ==
    LongestOk(re, s, ri, si, gs,
              {n \in min..k : MatchAt(re, s, ri + 1, si + n, gs).ok})

LongestOk(re, s, ri, si, gs, counts) ==
    IF counts = {} THEN NoMatch
    ELSE MatchAt(re, s, ri + 1, si + Greatest(counts), gs)

\* the match at the leftmost position where the pattern matches
LeftmostOk(re, s, starts) ==
    IF starts = {} THEN NoMatch
    ELSE MatchAt(re, s, 1, Least(starts), NoGroups)

SearchFrom(re, s, i) ==
    LeftmostOk(re, s,
               {j \in i..(Len(s) + 1) : MatchAt(re, s, 1, j, NoGroups).ok})

\* pattern.search(line)
Search(re, s) == SearchFrom(re, s, 1)

\* Mutant of Group: the group goes on to the end of the text
GroupToEnd(m, s, g) == SubSeq(s, m.groups[g].from, Len(s))

\* match.group(g)
Group(m, s, g) == SubSeq(s, m.groups[g].from, m.groups[g].to)

-----------------------------------------------------------------------------
(* LoginMonitor: the patterns of __init__ and _process_line                *)

\* sshd\[\d+\]: Accepted .+ for (\S+) from (\S+) port (\d+)
ssh_success ==
    << Lit(<<"s","s","h","d","[">>), Plus("d"),
       Lit(<<"]",":"," ","A","c","c","e","p","t","e","d"," ">>), Plus("any"),
       Lit(<<" ","f","o","r"," ">>), Open(1), Plus("S"), Close(1),
       Lit(<<" ","f","r","o","m"," ">>), Open(2), Plus("S"), Close(2),
       Lit(<<" ","p","o","r","t"," ">>), Open(3), Plus("d"), Close(3) >>

\* sshd\[\d+\]: Failed .+ for (?:invalid user )?(\S+) from (\S+) port (\d+)
ssh_failed ==
    << Lit(<<"s","s","h","d","[">>), Plus("d"),
       Lit(<<"]",":"," ","F","a","i","l","e","d"," ">>), Plus("any"),
       Lit(<<" ","f","o","r"," ">>),
       OptLit(<<"i","n","v","a","l","i","d"," ","u","s","e","r"," ">>),
       Open(1), Plus("S"), Close(1),
       Lit(<<" ","f","r","o","m"," ">>), Open(2), Plus("S"), Close(2),
       Lit(<<" ","p","o","r","t"," ">>), Open(3), Plus("d"), Close(3) >>

\* sudo:\s+(\S+)\s+:.*COMMAND=(.+)
sudo_command ==
    << Lit(<<"s","u","d","o",":">>), Plus("s"), Open(1), Plus("S"), Close(1),
       Plus("s"), Lit(<<":">>), Star("any"),
       Lit(<<"C","O","M","M","A","N","D","=">>), Open(2), Plus("any"), Close(2) >>

\* systemd-logind\[\d+\]: New session .+ of user (\S+)
session_opened ==
    << Lit(<<"s","y","s","t","e","m","d","-","l","o","g","i","n","d","[">>),
       Plus("d"),
       Lit(<<"]",":"," ","N","e","w"," ","s","e","s","s","i","o","n"," ">>),
       Plus("any"), Lit(<<" ","o","f"," ","u","s","e","r"," ">>),
       Open(1), Plus("S"), Close(1) >>

\* Mutant of SystemUsers: only root is a system user
SystemUsersRootOnly == { <<"r","o","o","t">> }

\* user not in ["root", "gdm", "lightdm"]
SystemUsers ==
    { <<"r","o","o","t">>, <<"g","d","m">>, <<"l","i","g","h","t","d","m">> }

Event(type, user, ip, port, command) ==
    [type |-> type, user |-> user, ip |-> ip, port |-> port,
     command |-> command]
NoEvent == Event("none", <<>>, <<>>, <<>>, <<>>)

\* Mutant of Callbacks: no return after a callback
CallbacksNoReturn(line, m1, m2, m3, m4) ==
    (IF m1.ok
     THEN <<Event("ssh_login", Group(m1, line, 1), Group(m1, line, 2),
                  Group(m1, line, 3), <<>>)>>
     ELSE <<>>)
    \o (IF m2.ok
        THEN <<Event("ssh_failed", Group(m2, line, 1), Group(m2, line, 2),
                     Group(m2, line, 3), <<>>)>>
        ELSE <<>>)
    \o (IF m3.ok
        THEN <<Event("sudo_command", Group(m3, line, 1), <<>>, <<>>,
                     Group(m3, line, 2))>>
        ELSE <<>>)
    \o (IF m4.ok /\ Group(m4, line, 1) \notin SystemUsers
        THEN <<Event("console_login", Group(m4, line, 1), <<>>, <<>>, <<>>)>>
        ELSE <<>>)

\* lines 109-176: the matches are tried in this order; the callback is
\* awaited for the first one that matched and the method returns
Callbacks(line, m1, m2, m3, m4) ==
    IF m1.ok
    THEN <<Event("ssh_login", Group(m1, line, 1), Group(m1, line, 2),
                 Group(m1, line, 3), <<>>)>>
    ELSE IF m2.ok
    THEN <<Event("ssh_failed", Group(m2, line, 1), Group(m2, line, 2),
                 Group(m2, line, 3), <<>>)>>
    ELSE IF m3.ok
    THEN <<Event("sudo_command", Group(m3, line, 1), <<>>, <<>>,
                 Group(m3, line, 2))>>
    ELSE IF m4.ok /\ Group(m4, line, 1) \notin SystemUsers
    THEN <<Event("console_login", Group(m4, line, 1), <<>>, <<>>, <<>>)>>
    ELSE <<>>

\* the first event of the calls, NoEvent when there is none
FirstEvent(calls) == IF calls = <<>> THEN NoEvent ELSE calls[1]

\* the event _process_line passes to the callback
Classify(line, m1, m2, m3, m4) == FirstEvent(Callbacks(line, m1, m2, m3, m4))

\* _process_line: the event the callback is invoked with, NoEvent when the
\* callback is not invoked
ProcessLine(line) ==
    Classify(line, Search(ssh_success, line), Search(ssh_failed, line),
             Search(sudo_command, line), Search(session_opened, line))

-----------------------------------------------------------------------------
(* _process_line on lines of auth.log                                      *)

\* "Nov 7 17:00:00 host "
Stamp ==
    <<"N","o","v"," ","7"," ","1","7",":","0","0",":","0","0"," ","h","o",
      "s","t"," ">>

\* "alice"
Alice ==
    <<"a","l","i","c","e">>

\* "root"
Root ==
    <<"r","o","o","t">>

\* "gdm"
Gdm ==
    <<"g","d","m">>

\* "lightdm"
Lightdm ==
    <<"l","i","g","h","t","d","m">>

\* "root."
RootDot ==
    <<"r","o","o","t",".">>

\* "10.0.0.5"
Ip ==
    <<"1","0",".","0",".","0",".","5">>

\* "22"
Port22 ==
    <<"2","2">>

\* "5022"
Port5022 ==
    <<"5","0","2","2">>

\* "/bin/ls -l /tmp"
ListTmp ==
    <<"/","b","i","n","/","l","s"," ","-","l"," ","/","t","m","p">>

\* "/bin/echo 'a;b' COMMAND=x"
EchoMarker ==
    <<"/","b","i","n","/","e","c","h","o"," ","'","a",";","b","'"," ","C",
      "O","M","M","A","N","D","=","x">>

\* "cron[9]: job"
CronJob ==
    <<"c","r","o","n","[","9","]",":"," ","j","o","b">>

LoginUsers == {Alice, Root}
Ports == {Port22, Port5022}
Commands == {ListTmp, EchoMarker}
SessionUsers == {Alice, Root, Gdm, Lightdm, RootDot}

\* the message sshd logs for an accepted login
AcceptedMessage(user, ip, port) ==
    <<"s","s","h","d","[","1","2","3","]",":"," ","A","c","c","e","p","t",
      "e","d"," ","p","a","s","s","w","o","r","d"," ","f","o","r"," ">>
        \o user \o <<" ","f","r","o","m"," ">> \o ip
        \o <<" ","p","o","r","t"," ">> \o port

\* the message sshd logs for a failed login, of a known or an unknown user
FailedMessage(invalid, user, ip, port) ==
    <<"s","s","h","d","[","7","]",":"," ","F","a","i","l","e","d"," ","p",
      "a","s","s","w","o","r","d"," ","f","o","r"," ">>
        \o (IF invalid
            THEN <<"i","n","v","a","l","i","d"," ","u","s","e","r"," ">>
            ELSE <<>>)
        \o user \o <<" ","f","r","o","m"," ">> \o ip
        \o <<" ","p","o","r","t"," ">> \o port \o <<" ","s","s","h","2">>

\* the message sudo logs for a command
SudoMessage(user, command) ==
    <<"s","u","d","o",":"," "," "," ">> \o user
        \o
    <<" ",":"," ","T","T","Y","=","p","t","s","/","0"," ",";"," ","U","S",
      "E","R","=","r","o","o","t"," ",";"," ","C","O","M","M","A","N","D",
      "=">>
        \o command

\* the message systemd-logind logs for a new session
SessionMessage(user) ==
    <<"s","y","s","t","e","m","d","-","l","o","g","i","n","d","[","1","]",
      ":"," ","N","e","w"," ","s","e","s","s","i","o","n"," ","3"," ","o",
      "f"," ","u","s","e","r"," ">>
        \o user

AcceptedMessages ==
    {AcceptedMessage(u, Ip, p) : u \in LoginUsers, p \in Ports}
FailedMessages ==
    {FailedMessage(i, u, Ip, Port22) : i \in BOOLEAN, u \in LoginUsers}
SudoMessages == {SudoMessage(Alice, c) : c \in Commands}
SessionMessages == {SessionMessage(u) : u \in SessionUsers}

Messages ==
    AcceptedMessages \cup FailedMessages \cup SudoMessages
        \cup SessionMessages \cup {CronJob, <<>>}

\* a line of the file: a timestamp and host, the message, a newline
LineOf(message) == Stamp \o message \o <<"\n">>

\* the line of the example, as passed without its newline
ExampleLine == Stamp \o AcceptedMessage(Alice, Ip, Port22)

\* the lines passed to _process_line: one message, or a message whose text
\* goes on with the text of another one
InputLines ==
    {LineOf(m) : m \in Messages}
        \cup {LineOf(m1 \o <<" ">> \o m2) : m1 \in Messages \ {<<>>},
                                           m2 \in Messages \ {<<>>}}
        \cup {ExampleLine}

\* await self._process_line(line), with a callback set; the method keeps
\* nothing from one call to the next, so a behaviour makes one call
ProcessLineCall(line) ==
    /\ log_line = <<>>
    /\ callback_calls = <<>>
    /\ log_line' = line
    /\ callback_calls' =
           Callbacks(line, Search(ssh_success, line), Search(ssh_failed, line),
                     Search(sudo_command, line), Search(session_opened, line))
    /\ UNCHANGED <<dlvars, logvars, npmvars>>

NextClassify == \E line \in InputLines : ProcessLineCall(line)

\* _process_line on its own
SpecClassify == Init /\ [][NextClassify]_vars

\* which of the four patterns, in the order of _process_line, the line matches
Matching(line) ==
    {i \in 1..4 :
        Search(CASE i = 1 -> ssh_success [] i = 2 -> ssh_failed
                 [] i = 3 -> sudo_command [] i = 4 -> session_opened,
               line).ok}

EventTypes ==
    <<"ssh_login", "ssh_failed", "sudo_command", "console_login">>

\* at most one event, of the first pattern that matched; none only when no
\* pattern matched or the first one is a session of a system user
OneEventOfFirst(line, calls, matching) ==
    IF matching = {} THEN calls = <<>>
    ELSE /\ Len(calls) <= 1
         /\ calls # <<>> => calls[1].type = EventTypes[Least(matching)]
         /\ calls = <<>> => Least(matching) = 4

\* C24: every line produces at most one event, the one of the first matcher
\* that matches in the order ssh_login, ssh_failed, sudo_command,
\* console_login; a line that matches no matcher produces no event.
C24_FirstMatcherDecides ==
    OneEventOfFirst(log_line, callback_calls, Matching(log_line))

\* C24 witness: a line that matches the failed-login matcher and the sudo
\* matcher was processed and has produced the ssh_failed event alone.
C24_Witness ==
    /\ log_line = LineOf(FailedMessage(FALSE, Alice, Ip, Port22) \o <<" ">>
                            \o SudoMessage(Alice, ListTmp))
    /\ Matching(log_line) = {2, 3}
    /\ Len(callback_calls) = 1
    /\ callback_calls[1].type = "ssh_failed"

CommandMarker == <<"C","O","M","M","A","N","D","=">>

\* the first position at or after i where chars occurs in s
RECURSIVE FirstAt(_, _, _)
FirstAt(chars, s, i) ==
    IF i > Len(s) \/ LitAt(chars, s, i) THEN i ELSE FirstAt(chars, s, i + 1)

\* the text of the line without its newline
BodyEnd(s) == IF s # <<>> /\ s[Len(s)] = "\n" THEN Len(s) - 1 ELSE Len(s)

AfterFirstMarker(s) ==
    SubSeq(s, FirstAt(CommandMarker, s, 1) + Len(CommandMarker), BodyEnd(s))

\* C25 (as claimed): the command of a sudo_command event is everything
\* after the first COMMAND= up to the end of the line.
C25_CommandAfterFirstMarker ==
    (callback_calls # <<>> /\ callback_calls[1].type = "sudo_command")
    => callback_calls[1].command = AfterFirstMarker(log_line)

\* C26 (as claimed): no line matches both the accepted-login pattern and
\* the failed-login pattern.
C26_SshPatternsExclusive ==
    ~(Search(ssh_success, log_line).ok /\ Search(ssh_failed, log_line).ok)

\* C27: a logind line "New session ... of user <user>" produces one
\* console_login event for <user>, and no event when <user> is root, gdm or
\* lightdm.
C27_ConsoleLoginUnlessSystemUser ==
    \A u \in SessionUsers :
        log_line = LineOf(SessionMessage(u))
        => callback_calls =
               IF u \in {Root, Gdm, Lightdm} THEN <<>>
               ELSE <<Event("console_login", u, <<>>, <<>>, <<>>)>>

\* C27 witness: the session line of gdm was processed, with no event.
C27_Witness ==
    /\ log_line = LineOf(SessionMessage(Gdm))
    /\ Search(session_opened, log_line).ok
    /\ callback_calls = <<>>

\* C28: the example line produces exactly one event, ssh_login of alice
\* from 10.0.0.5 port 22; an accepted-login line yields the tokens after
\* for, from and port as user, ip and port.
C28_AcceptedLineFields ==
    /\ log_line = ExampleLine
       => callback_calls = <<Event("ssh_login", Alice, Ip, Port22, <<>>)>>
    /\ \A u \in LoginUsers, p \in Ports :
           log_line = LineOf(AcceptedMessage(u, Ip, p))
           => callback_calls = <<Event("ssh_login", u, Ip, p, <<>>)>>

\* C28 witness: the example line was processed.
C28_Witness ==
    /\ log_line = ExampleLine
    /\ Len(callback_calls) = 1
    /\ callback_calls[1].user = Alice

-----------------------------------------------------------------------------
(* The watched file and its writer                                         *)

Inodes == {1, 2}

AcceptedPrefix ==
    <<"s","s","h","d","[","1","]",":"," ","A","c","c","e","p","t","e","d"," ",
      "p"," ","f","o","r"," ","a"," ","f","r","o","m"," ","h"," ","p","o","r",
      "t"," ">>
FailedPrefix ==
    <<"s","s","h","d","[","1","]",":"," ","F","a","i","l","e","d"," ","p"," ",
      "f","o","r"," ","a"," ","f","r","o","m"," ","h"," ","p","o","r","t"," ">>

LineKinds == {"accepted", "failed"}

\* the n-th line the writer writes: an accepted or a failed login from port n
LineText(kind, n) ==
    (IF kind = "accepted" THEN AcceptedPrefix ELSE FailedPrefix)
        \o Digits(n) \o <<"\n">>

\* where a line may be cut when it is written in two pieces: inside the
\* word after "sshd[1]: ", or before the newline
CutPoints(line) == {12, Len(line) - 1}

\* the lengths of the first piece the writer may write of its next line
FirstPieces(kind) ==
    CutPoints(LineText(kind, nextSerial)) \cup {Len(LineText(kind, nextSerial))}

\* the writer appends the first piece of its next line (all of it when
\* cut = Len(line))
WriteLine(kind, cut) ==
    LET line == LineText(kind, nextSerial)
    IN  /\ file.exists
        /\ pendingWrite = <<>>
        /\ nextSerial <= MaxLines
        /\ cut \in FirstPieces(kind)
        /\ file' = [file EXCEPT !.content = @ \o SubSeq(line, 1, cut)]
        /\ pendingWrite' = SubSeq(line, cut + 1, Len(line))
        /\ lineStart' = [lineStart EXCEPT ![nextSerial] = Len(file.content)]
        /\ nextSerial' = nextSerial + 1
        /\ UNCHANGED <<last_position, last_inode, lpc, startPos, delivered,
                       dropped, disturbed, cbRaised, fedPartial, lastPoll,
                       monitor_task, log_sleep_delay, stoppedRunning>>
        /\ UNCHANGED <<dlvars, clvars, npmvars>>

\* the writer appends the rest of the line
WriteRest ==
    /\ file.exists
    /\ pendingWrite # <<>>
    /\ file' = [file EXCEPT !.content = @ \o pendingWrite]
    /\ pendingWrite' = <<>>
    /\ UNCHANGED <<last_position, last_inode, lpc, nextSerial, lineStart,
                   startPos, delivered, dropped, disturbed, cbRaised,
                   fedPartial, lastPoll, monitor_task, log_sleep_delay,
                   stoppedRunning>>
    /\ UNCHANGED <<dlvars, clvars, npmvars>>

\* the lines of the current file of which the monitor has read no byte
UnreadSerials ==
    {n \in 1..MaxLines :
        /\ lineStart[n] >= 0
        /\ \/ lpc # "running"
           \/ last_inode # file.inode
           \/ lineStart[n] >= last_position}

\* the file at the path goes away or is replaced: its unread lines are lost
FileReplaced(newfile) ==
    /\ file' = newfile
    /\ pendingWrite' = <<>>
    /\ lineStart' = [n \in 1..MaxLines |-> -1]
    /\ dropped' = IF lpc = "running" THEN dropped \cup UnreadSerials ELSE dropped
    /\ disturbed' = TRUE
    /\ UNCHANGED <<last_position, last_inode, lpc, nextSerial, startPos,
                   delivered, cbRaised, fedPartial, lastPoll, monitor_task,
                   log_sleep_delay, stoppedRunning>>
    /\ UNCHANGED <<dlvars, clvars, npmvars>>

\* rotation by rename: a new, empty file with another inode takes the path
Rotate(inode) ==
    /\ file.exists
    /\ inode # file.inode
    /\ FileReplaced([exists |-> TRUE, inode |-> inode, content |-> <<>>])

\* the file is removed
Remove ==
    /\ file.exists
    /\ FileReplaced([exists |-> FALSE, inode |-> 0, content |-> <<>>])

\* a file is created at the path when there is none; the inode number may
\* be the one of the removed file
Create(inode) ==
    /\ ~file.exists
    /\ FileReplaced([exists |-> TRUE, inode |-> inode, content |-> <<>>])

\* the file is emptied in place (copytruncate): same inode
Truncate ==
    /\ file.exists
    /\ file.content # <<>>
    /\ FileReplaced([file EXCEPT !.content = <<>>])

-----------------------------------------------------------------------------
(* LoginMonitor.start_monitoring and _check_new_lines                      *)

\* outcomes of the file system calls of one poll
IoOutcomes == {"ok", "stat_error", "open_error", "read_error"}

\* which callback invocation of a poll raises, 0 for none: none, or the
\* first one when the poll has an event to deliver
RaiseAt(events) == IF events = <<>> THEN {0} ELSE {0, 1}

\* Mutant of SeekEnd: the file is read from its beginning
SeekEndSkipped(content) == 0

\* f.seek(0, 2); f.tell()
SeekEnd(content) == Len(content)

\* lines 53-64: os.stat, open, seek to the end; any failure ends the method
StartMonitoring(io) ==
    /\ lpc = "new"
    /\ io \in {"ok", "open_error"}
    /\ IF file.exists /\ io = "ok"
       THEN /\ last_inode' = file.inode
            /\ last_position' = SeekEnd(file.content)
            /\ startPos' = Len(file.content)
            /\ lpc' = "running"
       ELSE /\ last_inode' = IF file.exists THEN file.inode ELSE last_inode
            /\ lpc' = "returned"
            /\ UNCHANGED <<last_position, startPos>>
    /\ UNCHANGED <<file, nextSerial, pendingWrite, lineStart, delivered,
                   dropped, disturbed, cbRaised, fedPartial, lastPoll,
                   monitor_task, log_sleep_delay, stoppedRunning>>
    /\ UNCHANGED <<dlvars, clvars, npmvars>>

\* f.readlines(): the text cut after every newline; a last piece without
\* newline is a line too
RECURSIVE ReadLines(_)
ReadLines(text) ==
    IF text = <<>> THEN <<>>
    ELSE IF \E i \in 1..Len(text) : text[i] = "\n"
    THEN LET nl == CHOOSE i \in 1..Len(text) :
                       /\ text[i] = "\n"
                       /\ \A j \in 1..(i - 1) : text[j] # "\n"
         IN  <<SubSeq(text, 1, nl)>> \o ReadLines(SubSeq(text, nl + 1, Len(text)))
    ELSE <<text>>

\* Mutant of OffsetAfterInode: a rotation does not reset the offset
OffsetAfterInodeKept(recorded, current, offset) == offset

\* lines 83-88: the offset to read from, given the recorded and the current
\* inode
OffsetAfterInode(recorded, current, offset) ==
    IF recorded # 0 /\ current # recorded THEN 0 ELSE offset

Last(seq) == seq[Len(seq)]

EventIfAny(e) == IF e.type = "none" THEN <<>> ELSE <<e>>

\* the events of the lines, in order (for line in new_lines: _process_line)
RECURSIVE EventsOf(_)
EventsOf(lines) ==
    IF lines = <<>> THEN <<>>
    ELSE EventIfAny(ProcessLine(Head(lines))) \o EventsOf(Tail(lines))

\* Mutant of OffsetWhenAbsent: a missing file resets the offset
OffsetWhenAbsentReset(offset) == 0

\* lines 89-91: except FileNotFoundError: return -- self.last_position is
\* not assigned
OffsetWhenAbsent(offset) == offset

\* Mutant of TellAfterRead: the offset is not advanced past what was read
TellAfterReadStays(from, size) == from

\* Mutant of TellAfterRead: the offset is the size of the file
TellAfterReadClamped(from, size) == size

\* lines 94-96: f.seek(from); f.readlines(); f.tell() -- the end of the
\* file, or the seek position when that lies beyond the end
TellAfterRead(from, size) == IF from > size THEN from ELSE size

\* the step changed neither offset nor inode and invoked no callback
Kept ==
    /\ last_position' = last_position
    /\ last_inode' = last_inode
    /\ delivered' = delivered

PollRecord(kind, rotated, from, readAll, kept) ==
    [kind |-> kind, rotated |-> rotated, from |-> from, readAll |-> readAll,
     kept |-> kept]

\* lines 98-99: the lines are processed in order; the callback may raise in
\* the invocation raiseAt, which ends the loop
ProcessLines(lines, events, raiseAt) ==
    /\ delivered' =
           delivered \o (IF raiseAt > 0 THEN SubSeq(events, 1, raiseAt)
                                        ELSE events)
    /\ cbRaised' = (cbRaised \/ raiseAt > 0)
    /\ fedPartial' =
           (fedPartial \/
              (/\ lines # <<>>
               /\ Last(Last(lines)) # "\n"
               /\ \/ raiseAt = 0
                  \/ /\ raiseAt = Len(events)
                     /\ ProcessLine(Last(lines)).type # "none"))

\* lines 93-99: open, seek, readlines, tell, then the lines
ReadNewLines(rotated, from, text, lines, events) ==
    /\ last_position' = TellAfterRead(from, Len(file.content))
    /\ \E raiseAt \in RaiseAt(events) : ProcessLines(lines, events, raiseAt)
    /\ lastPoll' = PollRecord("ok", rotated, from, text = file.content, Kept)

\* lines 83-102: what follows a successful os.stat
AfterStat(io, rotated, from, text, lines) ==
    /\ last_inode' = file.inode
    /\ IF io \in {"open_error", "read_error"}
       THEN \* open or readlines raises: logged at line 102
            /\ last_position' = from
            /\ UNCHANGED <<delivered, cbRaised, fedPartial>>
            /\ lastPoll' = PollRecord("error", FALSE, 0, FALSE, Kept)
       ELSE ReadNewLines(rotated, from, text, lines, EventsOf(lines))

\* the bytes of the file from the offset on
TextFrom(from) == SubSeq(file.content, from + 1, Len(file.content))

\* lines 76 and 101: every Exception raised in _check_new_lines, by the file
\* system calls or by the callback, is caught and logged there, so the
\* call never raises to the loop of start_monitoring
CheckRaises(io, raisedInCallback) == FALSE

\* lines 66-72: asyncio.sleep(1) after the call returned, asyncio.sleep(5)
\* in the handler of line 70
LoopSleep(raised) == IF raised THEN 5 ELSE 1

\* lines 66-102: one iteration of the loop, a call of _check_new_lines and
\* the sleep that follows it
Poll(io) ==
    /\ lpc = "running"
    /\ log_sleep_delay' = LoopSleep(CheckRaises(io, cbRaised' /\ ~cbRaised))
    /\ IF ~file.exists
       THEN \* FileNotFoundError: return
            /\ last_position' = OffsetWhenAbsent(last_position)
            /\ UNCHANGED <<last_inode, delivered, cbRaised, fedPartial>>
            /\ lastPoll' = PollRecord("absent", FALSE, 0, FALSE, Kept)
       ELSE IF io = "stat_error"
       THEN \* another OSError of os.stat: logged at line 102
            /\ UNCHANGED <<last_position, last_inode, delivered, cbRaised,
                           fedPartial>>
            /\ lastPoll' = PollRecord("error", FALSE, 0, FALSE, Kept)
       ELSE LET from == OffsetAfterInode(last_inode, file.inode, last_position)
            IN  AfterStat(io, last_inode # 0 /\ file.inode # last_inode, from,
                          TextFrom(from), ReadLines(TextFrom(from)))
    /\ UNCHANGED <<file, lpc, nextSerial, pendingWrite, lineStart, startPos,
                   dropped, disturbed, monitor_task, stoppedRunning>>
    /\ UNCHANGED <<dlvars, clvars, npmvars>>

\* lines 193-197: stop_monitoring cancels the stored task, when one is
\* stored; nothing assigns self.monitor_task after __init__ (main.py keeps
\* the task of start_monitoring in a local variable, lines 473-475)
StopMonitoring ==
    /\ lpc' = IF monitor_task # "None" /\ lpc = "running"
              THEN "cancelled" ELSE lpc
    /\ stoppedRunning' = (stoppedRunning \/ lpc = "running")
    /\ UNCHANGED <<file, last_position, last_inode, nextSerial, pendingWrite,
                   lineStart, startPos, delivered, dropped, disturbed,
                   cbRaised, fedPartial, lastPoll, monitor_task,
                   log_sleep_delay>>
    /\ UNCHANGED <<dlvars, clvars, npmvars>>

NextLogin ==
    \/ \E io \in IoOutcomes : StartMonitoring(io)
    \/ \E io \in IoOutcomes : Poll(io)
    \/ \E k \in LineKinds : \E cut \in FirstPieces(k) : WriteLine(k, cut)
    \/ WriteRest
    \/ \E i \in Inodes : Rotate(i)
    \/ Remove
    \/ \E i \in Inodes : Create(i)
    \/ Truncate

\* The login monitor, the log writer and the file system alone
SpecLogin == Init /\ [][NextLogin]_vars

\* the file holds whole lines before the monitor starts; afterwards it is
\* rotated, truncated, removed and created
NextLoginStopped ==
    \/ \E io \in IoOutcomes : StartMonitoring(io)
    \/ \E io \in IoOutcomes : Poll(io)
    \/ \E k \in LineKinds :
           lpc = "new" /\ WriteLine(k, Len(LineText(k, nextSerial)))
    \/ Truncate
    \/ \E i \in Inodes : Rotate(i)
    \/ Remove
    \/ \E i \in Inodes : Create(i)
    \/ StopMonitoring

\* The login monitor with stop_monitoring, and with the sleep of the loop
\* returning: as long as the loop runs, another poll is made
SpecLoginStopped ==
    /\ Init /\ [][NextLoginStopped]_vars
    /\ WF_vars(\E io \in IoOutcomes : Poll(io))

-----------------------------------------------------------------------------
(* Claims about the login monitor                                          *)

\* the monitor runs undisturbed, started at a line boundary, the writer is
\* between two lines, and the last poll read up to the end of the file
Quiescent ==
    /\ lpc = "running"
    /\ ~disturbed
    /\ ~cbRaised
    /\ pendingWrite = <<>>
    /\ last_position = Len(file.content)
    /\ (startPos = 0 \/ file.content[startPos] = "\n")

\* the lines appended since start_monitoring
AppendedLines ==
    ReadLines(SubSeq(file.content, startPos + 1, Len(file.content)))

MatchingAppended ==
    Cardinality({i \in 1..Len(AppendedLines) :
                    Search(ssh_success, AppendedLines[i]).ok})

LoginsDelivered ==
    Cardinality({i \in 1..Len(delivered) : delivered[i].type = "ssh_login"})

\* C2 (as claimed): once every appended line has been polled, the number of
\* ssh_login events delivered equals the number of appended lines matching
\* the accepted-login grammar, wherever the polls fell in the appended bytes.
C2_LoginEventPerMatchingLine == Quiescent => LoginsDelivered = MatchingAppended

\* C5 (as claimed): no text without its newline is passed to the classifier,
\* and after a poll the offset stands right after a newline.
C5_PartialLineHeldBack ==
    /\ ~fedPartial
    /\ (/\ lpc = "running"
        /\ ~disturbed
        /\ ~cbRaised
        /\ last_position > startPos
        /\ last_position <= Len(file.content))
       => file.content[last_position] = "\n"

\* C6: a poll that finds another inode than the recorded one reads the file
\* from offset 0 to its end, and no event is ever delivered for a line that
\* was unread when its file was replaced.
C6_RotationReadsFromZero ==
    /\ lastPoll.rotated => (lastPoll.from = 0 /\ lastPoll.readAll)
    /\ \A i \in 1..Len(delivered) :
           \A n \in dropped : delivered[i].port # Digits(n)

\* C6 witness: a line was lost in a rotation, and the poll that detected the
\* rotation read a line of the new file and delivered its event.
C6_Witness ==
    /\ lastPoll.rotated
    /\ dropped # {}
    /\ delivered # <<>>
    /\ last_position > 0
    /\ last_position = Len(file.content)

\* C12: the stored offset decreases only in a poll that finds the file with
\* another inode than the recorded one; no other step makes it smaller.
C12_OffsetDecreasesOnlyOnRotation ==
    [][last_position' < last_position =>
           /\ lpc = "running"
           /\ file.exists
           /\ last_inode # 0
           /\ file.inode # last_inode]_vars

\* C12 witness: the poll that detected a rotation has left the offset below
\* the one recorded at start.
C12_Witness ==
    /\ lastPoll.kind = "ok"
    /\ lastPoll.rotated
    /\ last_position < startPos

\* the serial of the line an event was produced for
PortSerial(port) == CHOOSE n \in 1..MaxLines : Digits(n) = port

\* the offset right after the newline of line n, 0 while the line has none
LineEnd(n) ==
    LET nls == {i \in (lineStart[n] + 1)..Len(file.content) :
                   file.content[i] = "\n"}
    IN  IF nls = {} THEN 0 ELSE CHOOSE i \in nls : \A j \in nls : i <= j

\* C13 (as claimed): while the file is only appended to and no text without
\* its newline has been classified, every complete line appended after start
\* that the monitor has read past has its event delivered, and the events
\* are delivered in file order -- also when the callback has raised.
C13_EveryLineDeliveredInOrder ==
    (lpc = "running" /\ ~disturbed /\ ~fedPartial) =>
        /\ \A n \in 1..MaxLines :
               (/\ lineStart[n] >= startPos
                /\ LineEnd(n) > 0
                /\ LineEnd(n) <= last_position)
               => \E i \in 1..Len(delivered) : delivered[i].port = Digits(n)
        /\ \A i, j \in 1..Len(delivered) :
               i < j => PortSerial(delivered[i].port) < PortSerial(delivered[j].port)

\* C14: no two callback invocations are for the same line, whatever polls
\* (successful, failing, with the file missing) and file replacements occur.
C14_NoLineDeliveredTwice ==
    \A i, j \in 1..Len(delivered) :
        i # j => delivered[i].port # delivered[j].port

\* C14 witness: two lines were delivered, the file was replaced in between
\* or afterwards, and the last poll failed with an I/O error.
C14_Witness ==
    /\ Len(delivered) >= 2
    /\ disturbed
    /\ lastPoll.kind = "error"

\* C15: a poll that found the file absent changed neither the offset nor the
\* inode and invoked no callback, and the monitor is still in its loop.
C15_AbsentPollKeepsCursor ==
    lastPoll.kind = "absent" => (lastPoll.kept /\ lpc = "running")

\* C15 witness: the file is absent, the last poll found it so, and the
\* monitor had read and delivered a line before.
C15_Witness ==
    /\ lastPoll.kind = "absent"
    /\ ~file.exists
    /\ last_position > 0
    /\ delivered # <<>>

\* C16 (as claimed): a poll that failed with an I/O error changed neither
\* the offset nor the inode.
C16_ErrorPollKeepsCursor == lastPoll.kind = "error" => lastPoll.kept

\* C17: while the file is the one start_monitoring found, no event is
\* delivered for a line that was in it before the recorded offset.
C17_OldLinesNeverDelivered ==
    (lpc = "running" /\ ~disturbed) =>
        \A n \in 1..MaxLines :
            (lineStart[n] >= 0 /\ lineStart[n] < startPos) =>
                \A i \in 1..Len(delivered) : delivered[i].port # Digits(n)

\* C17 witness: a complete line was in the file at start, a later line was
\* read to the end of the file and delivered.
C17_Witness ==
    /\ lpc = "running"
    /\ ~disturbed
    /\ \E n \in 1..MaxLines :
           lineStart[n] >= 0 /\ LineEnd(n) > 0 /\ LineEnd(n) <= startPos
    /\ delivered # <<>>
    /\ last_position = Len(file.content)

\* C18 (as claimed): start_monitoring never leaves its loop, whatever I/O
\* error occurs at start-up or in a cycle.
C18_LoopNeverEnds == lpc # "returned"

\* C31 (as claimed): a poll cycle that failed is followed by the backoff
\* delay (5 for the log monitor, 10 for the download monitor), one that
\* succeeded by the normal interval (1, respectively 30).
C31_FailedCycleBacksOff ==
    /\ lastPoll.kind = "error" => log_sleep_delay = 5
    /\ (lastPoll.kind = "ok" /\ ~cbRaised) => log_sleep_delay = 1
    /\ (pc = "sleep" /\ sleep_delay # 0)
           => sleep_delay = (IF cycleError THEN 10 ELSE 30)

\* C32 (as claimed): once stop_monitoring was called on a running loop,
\* the loop eventually runs no more.
C32_StopEndsLoop == stoppedRunning ~> (lpc # "running")

\* C37 (as claimed): after a poll that read the file, the stored offset is
\* the end of the file as it was read and does not exceed its size.
C37_OffsetWithinFile ==
    [][((\E io \in IoOutcomes : Poll(io)) /\ lastPoll'.kind = "ok")
          => (last_position' = Len(file.content)
              /\ last_position' <= Len(file'.content))]_vars

-----------------------------------------------------------------------------
(* The NPM watchdog: check_url, restart_container and monitor_loop         *)

\* What the GET request of check_url can produce
UrlReplies ==
    {[kind |-> "http", status |-> 200],
     [kind |-> "http", status |-> 499],
     [kind |-> "http", status |-> 500],
     [kind |-> "timeout", status |-> 0],
     [kind |-> "client_error", status |-> 0]}

\* check_url: True for a response below 500, False for a server error and
\* for every exception
check_url(reply) == reply.kind = "http" /\ reply.status < 500

\* What `docker restart` can produce: a return code, or the TimeoutExpired
\* of subprocess.run
DockerOutcomes == {"returncode_0", "returncode_1", "timeout"}

\* a cooldown test that shortens the cooldown by one check interval
CooldownActiveShort(current_time, last) ==
    current_time - last < RESTART_COOLDOWN - CHECK_INTERVAL

\* the cooldown test of restart_container
CooldownActive(current_time, last) ==
    current_time - last < RESTART_COOLDOWN

\* restart_container called at current_time: what it returns and the values
\* the two globals have after it
restart_container(current_time, outcome) ==
    IF CooldownActive(current_time, last_restart_time)
    THEN [ok |-> FALSE, refused |-> TRUE,
          last_restart_time |-> last_restart_time,
          restart_count |-> restart_count]
    ELSE IF outcome = "returncode_0"
    THEN [ok |-> TRUE, refused |-> FALSE,
          last_restart_time |-> current_time,
          restart_count |-> restart_count + 1]
    ELSE [ok |-> FALSE, refused |-> FALSE,
          last_restart_time |-> last_restart_time,
          restart_count |-> restart_count]

\* a test that asks for a restart one failure early
ShouldRestartEarly(failures) == failures >= MAX_RETRIES - 1

\* the test of monitor_loop that leads to restart_container
ShouldRestart(failures) == failures >= MAX_RETRIES

\* How much later than asked the sleeps of one iteration return
Delays == {0, 240}

\* monitor_loop is entered
MonitorLoopStart ==
    /\ npc = "new"
    /\ npc' = "loop"
    /\ consecutive_failures' = 0
    /\ UNCHANGED <<last_restart_time, restart_count, now, failedRun,
                   restartTimes, lastIteration>>
    /\ UNCHANGED <<dlvars, logvars, clvars>>

\* One iteration of the loop of monitor_loop: the check, the restart with its
\* wait of 60 and second check, and the sleep of CHECK_INTERVAL.  reply is
\* the answer to the check, outcome and reply2 are what docker and the second
\* check produce when the iteration gets that far.
MonitorIteration(reply, outcome, reply2, late) ==
    LET is_available == check_url(reply)
        failures == IF is_available THEN 0 ELSE consecutive_failures + 1
        called == ~is_available /\ ShouldRestart(failures)
        result == restart_container(now, outcome)
        restarted == called /\ result.ok
        is_recovered == check_url(reply2)
        run == IF is_available THEN 0 ELSE failedRun + 1
        cooling == /\ restartTimes # <<>>
                   /\ now - restartTimes[Len(restartTimes)] < RESTART_COOLDOWN
        wake == now + (IF restarted THEN 60 ELSE 0) + CHECK_INTERVAL + late
    IN  /\ npc = "loop"
        /\ wake <= MaxTime
        /\ called \/ (outcome = "returncode_0" /\ reply2 = reply)
        /\ (called /\ ~result.ok) => reply2 = reply
        /\ consecutive_failures' =
               IF restarted /\ is_recovered THEN 0 ELSE failures
        /\ last_restart_time' =
               IF called THEN result.last_restart_time ELSE last_restart_time
        /\ restart_count' =
               IF called THEN result.restart_count ELSE restart_count
        /\ failedRun' = IF ~restarted THEN run
                        ELSE IF is_recovered THEN 0 ELSE run + 1
        /\ restartTimes' =
               IF restarted THEN Append(restartTimes, now) ELSE restartTimes
        /\ lastIteration' =
               [is_available |-> is_available, called |-> called,
                run |-> run, refused |-> called /\ result.refused,
                cooling |-> cooling,
                succeeded |-> is_available \/ (restarted /\ is_recovered),
                timeBefore |-> last_restart_time,
                countBefore |-> restart_count]
        /\ now' = wake
        /\ UNCHANGED npc
        /\ UNCHANGED <<dlvars, logvars, clvars>>

NextNpm ==
    \/ MonitorLoopStart
    \/ \E reply \in UrlReplies, outcome \in DockerOutcomes,
          reply2 \in UrlReplies, late \in Delays :
           MonitorIteration(reply, outcome, reply2, late)

SpecNpm == Init /\ [][NextNpm]_vars

-----------------------------------------------------------------------------
(* Claims about the NPM watchdog                                           *)

\* C38: restart_container is called only in an iteration whose check failed
\* and that ends a run of at least MAX_RETRIES failed checks since the last
\* successful one; after an iteration in which a check succeeded the
\* consecutive-failure counter is 0.
C38_RestartOnlyAfterMaxRetries ==
    /\ lastIteration.called =>
           (~lastIteration.is_available /\ lastIteration.run >= MAX_RETRIES)
    /\ lastIteration.succeeded => consecutive_failures = 0

\* C38 witness: restart_container was called at the third failed check in a
\* row, restarted the container, and the second check succeeded.
C38_Witness ==
    /\ lastIteration.called
    /\ lastIteration.run = MAX_RETRIES
    /\ lastIteration.succeeded
    /\ restart_count = 1

\* C39: two successful restarts are at least RESTART_COOLDOWN apart, and a
\* call of restart_container less than RESTART_COOLDOWN after a successful
\* restart is refused and leaves last_restart_time and restart_count as they
\* were.
C39_CooldownBetweenRestarts ==
    /\ \A i \in 1..(Len(restartTimes) - 1) :
           restartTimes[i + 1] - restartTimes[i] >= RESTART_COOLDOWN
    /\ (lastIteration.called /\ lastIteration.cooling) =>
           /\ lastIteration.refused
           /\ last_restart_time = lastIteration.timeBefore
           /\ restart_count = lastIteration.countBefore

\* C39 witness: two restarts exactly RESTART_COOLDOWN apart, and a later
\* call that was refused.
C39_Witness ==
    /\ Len(restartTimes) = 2
    /\ restartTimes[2] - restartTimes[1] = RESTART_COOLDOWN
    /\ lastIteration.called
    /\ lastIteration.cooling
    /\ lastIteration.refused

====
